---- MODULE Spec2Model ----
(***************************************************************************)
(* A model of the DNS client: the message codec of dns_client.py           *)
(* (convert_domain_to_dns_format, create_dns_query, parse_dns_response),   *)
(* the UDP transport dns_lookup, and the lookup thread / button protocol   *)
(* of dns_client_gui.py.                                                   *)
(*                                                                         *)
(* Bytes are integers 0..255, a bytes object is a sequence of them, and a  *)
(* Python str is a sequence of code points ('.' is 46, '0' is 48).         *)
(***************************************************************************)
EXTENDS Integers, Sequences, FiniteSets, TLC

VARIABLES
    \* parse_dns_response: its argument, its locals and its position
    response, pc, offset, ancount, i, record_type, data_len, ip_addresses,
    \* the description of the message the response buffer was built from
    question, records,
    \* create_dns_query: its arguments, the random draw and what the call gave
    domain_name, query_type, transaction_id, query,
    \* dns_lookup: position, the sockets opened so far, the I/O of the call
    lpc, socks, sends, recvs, datagram, outcome, calls,
    \* DNSClientGUI: the button, the text field, the threads, the queued signals
    button_enabled, domain_input, results_label, ip_list, query_time_label,
    threads, lookup_thread, signals, handled, clicks, alive

parseVars == <<response, pc, offset, ancount, i, record_type, data_len,
               ip_addresses, question, records>>
queryVars == <<domain_name, query_type, transaction_id, query>>
lookupVars == <<lpc, socks, sends, recvs, datagram, outcome, calls>>
guiVars == <<button_enabled, domain_input, results_label, ip_list,
             query_time_label, threads, lookup_thread, signals, handled,
             clicks, alive>>
vars == <<parseVars, queryVars, lookupVars, guiVars>>

----------------------------------------------------------------------------
(* Bounds of the model *)

\* answer records in a generated response
MaxRecords == 2
\* bytes cut off the end of a generated response
MaxTrim == 3
\* code points in a generated domain string
MaxLen == 4
\* calls of dns_lookup in one behaviour
MaxCalls == 2
\* button clicks in one behaviour
MaxClicks == 3
\* calls of create_dns_query on the same arguments
MaxQueries == 2

----------------------------------------------------------------------------
(* Program constants *)

HeaderLen == 12
QFixedLen == 4
PointerLen == 2
RFixedLen == 10
TypeA == 1
RecvSize == 512
Flags == 256
ClassIN == 1
Dot == 46

Byte == 0..255

----------------------------------------------------------------------------
(* Python's bytes and str operations *)

\* b[lo:hi] on a sequence, 0-based and clamped as Python clamps a slice
Slice(b, lo, hi) ==
    LET h == IF hi > Len(b) THEN Len(b) ELSE hi
    IN IF lo >= h THEN <<>> ELSE SubSeq(b, lo + 1, h)

\* struct's '!H': two bytes, big-endian
U16(b, k) == b[k + 1] * 256 + b[k + 2]
PackU16(n) == <<n \div 256, n % 256>>

\* byte & 0xC0 == 0xC0
IsPointer(byte) == byte \div 64 = 3

RECURSIVE Str(_)
\* str(b) of a non-negative integer: its decimal digits
Str(n) == IF n < 10 THEN <<48 + n>> ELSE Str(n \div 10) \o <<48 + (n % 10)>>

RECURSIVE Join(_)
\* '.'.join(parts)
Join(parts) ==
    IF parts = <<>> THEN <<>>
    ELSE IF Len(parts) = 1 THEN parts[1]
    ELSE parts[1] \o <<Dot>> \o Join(Tail(parts))

RECURSIVE Concat(_)
\* b''.join(ss): the sequences of ss one after the other
Concat(ss) == IF ss = <<>> THEN <<>> ELSE Head(ss) \o Concat(Tail(ss))

\* (a variant that leaves the separator out)
FormatIpNoDots(ip_bytes) ==
    Concat([k \in 1..Len(ip_bytes) |-> Str(ip_bytes[k])])

\* '.'.join(str(b) for b in ip_bytes)
FormatIp(ip_bytes) == Join([k \in 1..Len(ip_bytes) |-> Str(ip_bytes[k])])

----------------------------------------------------------------------------
(* parse_dns_response, one read per step.  A parser state is the record of *)
(* the function's locals; pc is "header", "q_label", "ans_name",           *)
(* "ans_label", "ans_fields", "ans_data", "done" (returned) or "error"     *)
(* (IndexError or struct.error raised).                                    *)

Raise(s) == [s EXCEPT !.pc = "error"]

\* struct.unpack('!HHHHHH', response[:12]); offset = 12
Header(resp, s) ==
    IF Len(Slice(resp, 0, HeaderLen)) # HeaderLen THEN Raise(s)
    ELSE [s EXCEPT !.pc = "q_label", !.ancount = U16(resp, 6),
                   !.offset = HeaderLen]

\* where the for loop goes after the question, and after each record
LoopNext(s) == IF s.i < s.ancount THEN "ans_name" ELSE "done"

\* one iteration of the question's while loop; on the zero byte the
\* loop breaks and QTYPE and QCLASS are skipped unread
QuestionLabel(resp, s) ==
    IF s.offset >= Len(resp) THEN Raise(s)
    ELSE LET length == resp[s.offset + 1]
         IN IF length = 0
            THEN [s EXCEPT !.offset = s.offset + 1 + QFixedLen,
                           !.pc = LoopNext(s)]
            ELSE [s EXCEPT !.offset = s.offset + length + 1]

\* one iteration of the owner name's while loop
AnswerLabel(resp, s) ==
    IF s.offset >= Len(resp) THEN Raise(s)
    ELSE LET length == resp[s.offset + 1]
         IN IF length = 0
            THEN [s EXCEPT !.offset = s.offset + 1, !.pc = "ans_fields"]
            ELSE [s EXCEPT !.offset = s.offset + length + 1,
                           !.pc = "ans_label"]

\* (a variant without the pointer test: every name is walked as labels)
AnswerNameAsLabels(resp, s) == AnswerLabel(resp, s)

\* (a variant that follows the pointer to its target and walks on there)
AnswerNameFollowsPointer(resp, s) ==
    IF s.offset >= Len(resp) THEN Raise(s)
    ELSE IF IsPointer(resp[s.offset + 1])
         THEN IF s.offset + 1 >= Len(resp) THEN Raise(s)
              ELSE [s EXCEPT !.offset = (resp[s.offset + 1] % 64) * 256
                                            + resp[s.offset + 2],
                             !.pc = "ans_label"]
         ELSE AnswerLabel(resp, s)

\* the pointer test on the first byte of the owner name; without
\* a pointer, the first iteration of the while loop
AnswerName(resp, s) ==
    IF s.offset >= Len(resp) THEN Raise(s)
    ELSE IF IsPointer(resp[s.offset + 1])
         THEN [s EXCEPT !.offset = s.offset + PointerLen, !.pc = "ans_fields"]
         ELSE AnswerLabel(resp, s)

\* struct.unpack('!HHIH', response[offset:offset+10]); offset += 10
AnswerFields(resp, s) ==
    IF Len(Slice(resp, s.offset, s.offset + RFixedLen)) # RFixedLen
    THEN Raise(s)
    ELSE [s EXCEPT !.record_type = U16(resp, s.offset),
                   !.data_len = U16(resp, s.offset + 8),
                   !.offset = s.offset + RFixedLen,
                   !.pc = "ans_data"]

\* (a variant that moves past the RDATA of A records only)
AnswerDataSkipsOnlyA(resp, s) ==
    LET ip_bytes == Slice(resp, s.offset, s.offset + s.data_len)
        t == IF s.record_type = TypeA
             THEN [s EXCEPT !.i = s.i + 1, !.offset = s.offset + s.data_len,
                            !.ip_addresses =
                                Append(s.ip_addresses, FormatIp(ip_bytes))]
             ELSE [s EXCEPT !.i = s.i + 1]
    IN [t EXCEPT !.pc = IF t.i < t.ancount THEN "ans_name" ELSE "done"]

\* the A record's address, then offset += data_len; the slice of the
\* address is not checked against the end of the buffer
AnswerData(resp, s) ==
    LET ip_bytes == Slice(resp, s.offset, s.offset + s.data_len)
        t == [s EXCEPT !.i = s.i + 1, !.offset = s.offset + s.data_len,
                       !.ip_addresses =
                           IF s.record_type = TypeA
                           THEN Append(s.ip_addresses, FormatIp(ip_bytes))
                           ELSE s.ip_addresses]
    IN [t EXCEPT !.pc = LoopNext(t)]

ParseStart ==
    [pc |-> "header", offset |-> 0, ancount |-> 0, i |-> 0, record_type |-> 0,
     data_len |-> 0, ip_addresses |-> <<>>]

ParseStep(resp, s) ==
    CASE s.pc = "header" -> Header(resp, s)
      [] s.pc = "q_label" -> QuestionLabel(resp, s)
      [] s.pc = "ans_name" -> AnswerName(resp, s)
      [] s.pc = "ans_label" -> AnswerLabel(resp, s)
      [] s.pc = "ans_fields" -> AnswerFields(resp, s)
      [] s.pc = "ans_data" -> AnswerData(resp, s)
      [] OTHER -> s

RECURSIVE RunParse(_, _)
RunParse(resp, s) ==
    IF s.pc \in {"done", "error"} THEN s ELSE RunParse(resp, ParseStep(resp, s))

\* the whole call: the state in which it returns or raises
ParseDnsResponse(resp) == RunParse(resp, ParseStart)

----------------------------------------------------------------------------
(* The response buffers the parser is run on: a header, one question and   *)
(* answer records in the layout parse_dns_response reads; whole, with an   *)
(* ANCOUNT one too large, or cut short by a few bytes (a message without   *)
(* records: at any length).                                                *)

\* length-prefixed labels and the zero terminator
EncLabels(labels) ==
    Concat([k \in 1..Len(labels) |-> <<Len(labels[k])>> \o labels[k]]) \o <<0>>

\* an owner name: labels to the zero byte, a bare pointer to offset 12,
\* or (RFC 1035 4.1.4) labels that end with a pointer
OwnerName(kind) ==
    CASE kind = "labels" -> EncLabels(<<<<97>>>>)
      [] kind = "pointer" -> <<192, HeaderLen>>
      [] kind = "mixed" -> <<1, 119, 192, HeaderLen>>

\* name, TYPE, CLASS, TTL, RDLENGTH, RDATA
EncRecord(r) ==
    OwnerName(r.name) \o PackU16(r.type) \o PackU16(ClassIN) \o <<0, 0, 1, 44>>
        \o PackU16(Len(r.rdata)) \o r.rdata

\* the header with ANCOUNT = an, the question, the records
EncResponse(q, recs, an) ==
    PackU16(4660) \o PackU16(33152) \o PackU16(1) \o PackU16(an) \o PackU16(0)
        \o PackU16(0) \o EncLabels(q) \o PackU16(TypeA) \o PackU16(ClassIN)
        \o Concat([k \in 1..Len(recs) |-> EncRecord(recs[k])])

Questions == {<<>>, <<<<97>>, <<98, 99>>>>}
NameKinds == {"labels", "pointer", "mixed"}
RecordTypes == {TypeA, 5}
Payloads == {<<93, 184, 216, 34>>, <<10, 0, 0, 255>>, <<192, 12>>}
\* A records with each payload, other records with the 2-byte one; the
\* name that ends in a pointer on one A record
RecordSet ==
    {r \in [name : NameKinds, type : RecordTypes, rdata : Payloads] :
        /\ r.type # TypeA => r.rdata = <<192, 12>>
        /\ r.name = "mixed" => r.type = TypeA /\ r.rdata = <<10, 0, 0, 255>>}
RecordLists == UNION {[1..n -> RecordSet] : n \in 0..MaxRecords}

ParseIdle ==
    /\ response = <<>> /\ pc = "idle" /\ offset = 0 /\ ancount = 0 /\ i = 0
    /\ record_type = 0 /\ data_len = 0 /\ ip_addresses = <<>>
    /\ question = <<>> /\ records = <<>>

ParseInit ==
    /\ question \in Questions
    /\ records \in RecordLists
    \* the root question is tried on the messages without records
    /\ records # <<>> => question # <<>>
    /\ \/ response = EncResponse(question, records, Len(records) + 1)
       \/ LET full == EncResponse(question, records, Len(records))
              cuts == IF records = <<>> THEN 0..Len(full) ELSE 0..MaxTrim
          IN \E t \in cuts : response = SubSeq(full, 1, Len(full) - t)
    /\ pc = ParseStart.pc /\ offset = ParseStart.offset
    /\ ancount = ParseStart.ancount /\ i = ParseStart.i
    /\ record_type = ParseStart.record_type /\ data_len = ParseStart.data_len
    /\ ip_addresses = ParseStart.ip_addresses

\* the parser's locals as a parser state, and a step's result written back
Cur ==
    [pc |-> pc, offset |-> offset, ancount |-> ancount, i |-> i,
     record_type |-> record_type, data_len |-> data_len,
     ip_addresses |-> ip_addresses]

Becomes(s) ==
    /\ pc' = s.pc /\ offset' = s.offset /\ ancount' = s.ancount /\ i' = s.i
    /\ record_type' = s.record_type /\ data_len' = s.data_len
    /\ ip_addresses' = s.ip_addresses
    /\ UNCHANGED <<response, question, records>>
    /\ UNCHANGED <<queryVars, lookupVars, guiVars>>

DoHeader == pc = "header" /\ Becomes(Header(response, Cur))
DoQuestionLabel == pc = "q_label" /\ Becomes(QuestionLabel(response, Cur))
DoAnswerName == pc = "ans_name" /\ Becomes(AnswerName(response, Cur))
DoAnswerLabel == pc = "ans_label" /\ Becomes(AnswerLabel(response, Cur))
DoAnswerFields == pc = "ans_fields" /\ Becomes(AnswerFields(response, Cur))
DoAnswerData == pc = "ans_data" /\ Becomes(AnswerData(response, Cur))

NextParse ==
    \/ DoHeader
    \/ DoQuestionLabel
    \/ DoAnswerName
    \/ DoAnswerLabel
    \/ DoAnswerFields
    \/ DoAnswerData

----------------------------------------------------------------------------
(* convert_domain_to_dns_format and create_dns_query.  A call's result is  *)
(* [ok |-> TRUE, bytes |-> b] when it returns b and [ok |-> FALSE,         *)
(* bytes |-> <<>>] when it raises (ValueError, UnicodeEncodeError or       *)
(* struct.error).                                                          *)

Returned(b) == [ok |-> TRUE, bytes |-> b]
Raised == [ok |-> FALSE, bytes |-> <<>>]

RECURSIVE Split(_)
\* domain.split('.'): the parts between the dots, empty ones included
Split(str) ==
    IF \A k \in 1..Len(str) : str[k] # Dot THEN <<str>>
    ELSE LET d == CHOOSE k \in 1..Len(str) :
                      str[k] = Dot /\ \A j \in 1..(k - 1) : str[j] # Dot
         IN <<SubSeq(str, 1, d - 1)>> \o Split(SubSeq(str, d + 1, Len(str)))

\* bytes([len(part)]) takes 0..255 only; encode('ascii') takes code
\* points below 128 only
PartOk(part) == Len(part) \in Byte /\ \A k \in 1..Len(part) : part[k] < 128

\* (a variant that leaves the terminating zero out)
ConvertDomainNoTerminator(domain) ==
    LET parts == Split(domain)
    IN IF \E k \in 1..Len(parts) : ~PartOk(parts[k]) THEN Raised
       ELSE Returned(Concat([k \in 1..Len(parts) |->
                                <<Len(parts[k])>> \o parts[k]]))

\* dns_format += bytes([len(part)]) + part.encode('ascii') for each part,
\* then the terminating zero
ConvertDomainToDnsFormat(domain) ==
    LET parts == Split(domain)
    IN IF \E k \in 1..Len(parts) : ~PartOk(parts[k]) THEN Raised
       ELSE Returned(Concat([k \in 1..Len(parts) |->
                                <<Len(parts[k])>> \o parts[k]]) \o <<0>>)

\* (a variant that packs the header in little-endian order)
CreateDnsQueryLittleEndian(domain, qtype, tid) ==
    LET le(n) == <<n % 256, n \div 256>>
        header == le(tid) \o le(Flags) \o le(1) \o le(0) \o le(0) \o le(0)
        name == ConvertDomainToDnsFormat(domain)
    IN IF ~name.ok \/ qtype \notin 0..65535 THEN Raised
       ELSE Returned(header \o name.bytes \o PackU16(qtype) \o PackU16(ClassIN))

\* header + question; struct.pack('!H', n) takes 0..65535 only
CreateDnsQuery(domain, qtype, tid) ==
    LET header == PackU16(tid) \o PackU16(Flags) \o PackU16(1) \o PackU16(0)
                      \o PackU16(0) \o PackU16(0)
        name == ConvertDomainToDnsFormat(domain)
    IN IF ~name.ok \/ qtype \notin 0..65535 THEN Raised
       ELSE Returned(header \o name.bytes \o PackU16(qtype) \o PackU16(ClassIN))

\* the domain strings: every string over 'a', '.', 'e-acute' up to MaxLen
\* code points, "a.b.c", and labels of 255 and of 256 bytes
Alphabet == {97, Dot, 233}
Domains ==
    UNION {[1..n -> Alphabet] : n \in 0..MaxLen}
        \cup {<<97, Dot, 98, Dot, 99>>, [k \in 1..255 |-> 97],
              [k \in 1..256 |-> 97]}
QueryTypes == {TypeA, 28, 65535, 65536}
TransactionIds == {0, 4660, 65535}

QueryIdle ==
    /\ domain_name = <<>> /\ query_type = TypeA /\ transaction_id = 0
    /\ query = <<>>

QueryInit ==
    /\ domain_name \in Domains
    /\ query_type \in QueryTypes
    /\ transaction_id = 0
    /\ query = <<>>

\* one call of create_dns_query(domain_name, query_type); query keeps
\* what each call gave, in order
CallCreateDnsQuery ==
    /\ Len(query) < MaxQueries
    /\ \E tid \in TransactionIds :
         /\ transaction_id' = tid
         /\ query' = Append(query, CreateDnsQuery(domain_name, query_type, tid))
    /\ UNCHANGED <<domain_name, query_type>>
    /\ UNCHANGED <<parseVars, lookupVars, guiVars>>

----------------------------------------------------------------------------
(* dns_lookup.  lpc is "idle" (no call yet), "opened" (inside the with     *)
(* block, socket created), "queried", "sent", "received", and, once the    *)
(* call has ended, "returned" or "raised".  socks holds one entry per      *)
(* socket ever created, "open" or "closed"; the call's socket is the last. *)

\* (a variant that leaves the socket as it is)
ExitWithLeak(ss) == ss

\* the with statement's exit: the call's socket is closed
ExitWith(ss) == [ss EXCEPT ![Len(ss)] = "closed"]

\* recvfrom(512): at most 512 bytes of the datagram
RecvFrom(d) == Slice(d, 0, RecvSize)

\* what the resolver may send back: an answer with one A record, the same
\* cut inside the address, cut inside the fixed fields, an empty datagram,
\* and an answer followed by 600 more bytes
OneAnswer ==
    EncResponse(<<<<97>>>>,
                <<[name |-> "pointer", type |-> TypeA,
                   rdata |-> <<93, 184, 216, 34>>]>>, 1)
Datagrams ==
    {OneAnswer, SubSeq(OneAnswer, 1, Len(OneAnswer) - 2),
     SubSeq(OneAnswer, 1, Len(OneAnswer) - 6), <<>>,
     OneAnswer \o [k \in 1..600 |-> 0]}
LookupDomains == {<<97, Dot, 98>>, <<233>>}

LookupIdle ==
    /\ lpc = "idle" /\ socks = <<>> /\ sends = 0 /\ recvs = 0
    /\ datagram = <<>> /\ outcome = [kind |-> "none", value |-> <<>>]
    /\ calls = 0

\* (a variant that goes back to sending after a timeout)
EndedRetry(kind, value) ==
    IF kind = "timeout" THEN lpc' = "queried" /\ outcome' = outcome
    ELSE /\ lpc' = (IF kind = "ok" THEN "returned" ELSE "raised")
         /\ outcome' = [kind |-> kind, value |-> value]

\* the call ends: it returns value, or the exception kind leaves it
Ended(kind, value) ==
    /\ lpc' = (IF kind = "ok" THEN "returned" ELSE "raised")
    /\ outcome' = [kind |-> kind, value |-> value]

\* the call starts: socket.socket(...) and settimeout(5), or OSError
LookupOpen ==
    /\ lpc \in {"idle", "returned", "raised"}
    /\ calls < MaxCalls
    /\ calls' = calls + 1
    /\ sends' = 0 /\ recvs' = 0 /\ datagram' = <<>>
    /\ \E d \in LookupDomains : domain_name' = d
    /\ query' = <<>>
    /\ \/ /\ socks' = Append(socks, "open")
          /\ lpc' = "opened"
          /\ outcome' = [kind |-> "none", value |-> <<>>]
       \/ /\ Ended("OSError", <<>>)
          /\ UNCHANGED socks
    /\ UNCHANGED <<query_type, transaction_id>>
    /\ UNCHANGED <<parseVars, guiVars>>

\* query = create_dns_query(domain_name)
LookupQuery ==
    /\ lpc = "opened"
    /\ \E tid \in TransactionIds :
         LET q == CreateDnsQuery(domain_name, TypeA, tid)
         IN /\ transaction_id' = tid
            /\ query' = <<q>>
            /\ IF q.ok
               THEN lpc' = "queried" /\ UNCHANGED <<socks, outcome>>
               ELSE Ended("EncodeError", <<>>) /\ socks' = ExitWith(socks)
    /\ UNCHANGED <<domain_name, query_type, sends, recvs, datagram, calls>>
    /\ UNCHANGED <<parseVars, guiVars>>

\* sock.sendto(query, (dns_server, dns_port))
LookupSend ==
    /\ lpc = "queried"
    /\ \/ /\ sends' = sends + 1
          /\ lpc' = "sent"
          /\ UNCHANGED <<socks, outcome>>
       \/ /\ Ended("OSError", <<>>)
          /\ socks' = ExitWith(socks)
          /\ UNCHANGED sends
    /\ UNCHANGED <<recvs, datagram, calls, queryVars>>
    /\ UNCHANGED <<parseVars, guiVars>>

\* response, _ = sock.recvfrom(512), or socket.timeout after 5 seconds,
\* or another socket error
LookupRecv ==
    /\ lpc = "sent"
    /\ \/ \E d \in Datagrams :
            /\ datagram' = RecvFrom(d)
            /\ recvs' = recvs + 1
            /\ lpc' = "received"
            /\ UNCHANGED <<socks, outcome>>
       \/ /\ \E kind \in {"timeout", "OSError"} : Ended(kind, <<>>)
          /\ socks' = ExitWith(socks)
          /\ UNCHANGED <<recvs, datagram>>
    /\ UNCHANGED <<sends, calls, queryVars>>
    /\ UNCHANGED <<parseVars, guiVars>>

\* ip_addresses = parse_dns_response(response); return
LookupParse ==
    /\ lpc = "received"
    /\ LET r == ParseDnsResponse(datagram)
       IN IF r.pc = "done" THEN Ended("ok", r.ip_addresses)
          ELSE Ended("ParseError", <<>>)
    /\ socks' = ExitWith(socks)
    /\ UNCHANGED <<sends, recvs, datagram, calls, queryVars>>
    /\ UNCHANGED <<parseVars, guiVars>>

NextLookup ==
    \/ LookupOpen
    \/ LookupQuery
    \/ LookupSend
    \/ LookupRecv
    \/ LookupParse

----------------------------------------------------------------------------
(* DNSClientGUI and DNSLookupThread.  threads holds every DNSLookupThread  *)
(* created, each "running" (in run(), dns_lookup not yet over), "emitted"  *)
(* (its signal is queued for the main thread, run() has not returned) or   *)
(* "returned"; lookup_thread is the index of the one self.lookup_thread    *)
(* refers to (0: none).  signals is the main thread's queue of emitted     *)
(* signals; handled lists, per thread, the slots run for it.               *)

RECURSIVE LStrip(_)
LStrip(str) ==
    IF str # <<>> /\ Head(str) = 32 THEN LStrip(Tail(str)) ELSE str
RECURSIVE RStrip(_)
RStrip(str) ==
    IF str # <<>> /\ str[Len(str)] = 32
    THEN RStrip(SubSeq(str, 1, Len(str) - 1)) ELSE str
\* str.strip()
Strip(str) == RStrip(LStrip(str))

Texts == {<<>>, <<32>>, <<97, Dot, 98>>, <<32, 233>>}
\* what dns_lookup gives a thread: a list of addresses, or an exception
ThreadResults ==
    {[kind |-> "finished", value |-> <<>>],
     [kind |-> "finished", value |-> <<FormatIp(<<93, 184, 216, 34>>)>>],
     [kind |-> "error", value |-> <<>>]}

GuiIdle ==
    /\ button_enabled = TRUE /\ domain_input = <<>>
    /\ results_label = "Results will appear here" /\ ip_list = <<>>
    /\ query_time_label = "" /\ threads = <<>> /\ lookup_thread = 0
    /\ signals = <<>> /\ handled = <<>> /\ clicks = 0 /\ alive = TRUE

\* the user edits the text field
EditDomain ==
    /\ alive
    /\ \E t \in Texts : domain_input' = t /\ t # domain_input
    /\ UNCHANGED <<button_enabled, results_label, ip_list, query_time_label,
                   threads, lookup_thread, signals, handled, clicks, alive>>
    /\ UNCHANGED <<parseVars, queryVars, lookupVars>>

\* whether run() of the thread self.lookup_thread refers to has returned
Finished(ts, t) == t = 0 \/ ts[t] = "returned"

\* self.lookup_thread = DNSLookupThread(domain); ...; start().  The thread
\* object referred to before loses its last reference; destroying a
\* QThread that is still running may end the process
StartThread ==
    /\ threads' = Append(threads, "running")
    /\ handled' = Append(handled, <<>>)
    /\ lookup_thread' = Len(threads) + 1
    /\ IF Finished(threads, lookup_thread) THEN alive' = alive
       ELSE alive' \in BOOLEAN

\* a click on the Lookup button: perform_lookup
PerformLookup ==
    /\ alive /\ button_enabled
    /\ clicks < MaxClicks
    /\ clicks' = clicks + 1
    /\ IF Strip(domain_input) = <<>>
       THEN /\ results_label' = "Please enter a domain name"
            /\ UNCHANGED <<button_enabled, ip_list, query_time_label, threads,
                           lookup_thread, handled, alive>>
       ELSE /\ ip_list' = <<>>
            /\ query_time_label' = ""
            /\ results_label' = "Looking up..."
            /\ button_enabled' = FALSE
            /\ StartThread
    /\ UNCHANGED <<domain_input, signals>>
    /\ UNCHANGED <<parseVars, queryVars, lookupVars>>

\* DNSLookupThread.run up to the emit: dns_lookup returns or raises, and
\* finished or error is queued for the main thread
ThreadEmit(t) ==
    /\ alive
    /\ threads[t] = "running"
    /\ \E r \in ThreadResults :
         signals' = Append(signals, [thread |-> t, kind |-> r.kind,
                                     value |-> r.value])
    /\ threads' = [threads EXCEPT ![t] = "emitted"]
    /\ UNCHANGED <<button_enabled, domain_input, results_label, ip_list,
                   query_time_label, lookup_thread, handled, clicks, alive>>
    /\ UNCHANGED <<parseVars, queryVars, lookupVars>>

\* run() returns
ThreadReturn(t) ==
    /\ alive
    /\ threads[t] = "emitted"
    /\ threads' = [threads EXCEPT ![t] = "returned"]
    /\ UNCHANGED <<button_enabled, domain_input, results_label, ip_list,
                   query_time_label, lookup_thread, signals, handled, clicks,
                   alive>>
    /\ UNCHANGED <<parseVars, queryVars, lookupVars>>

\* the main thread runs the slot of the oldest queued signal
HandleResults ==
    /\ alive
    /\ signals # <<>> /\ Head(signals).kind = "finished"
    /\ button_enabled' = TRUE
    /\ results_label' = "Found"
    /\ ip_list' = ip_list \o Head(signals).value
    /\ query_time_label' = "Query time"
    /\ handled' = [handled EXCEPT ![Head(signals).thread] =
                       Append(@, "handle_results")]
    /\ signals' = Tail(signals)
    /\ UNCHANGED <<domain_input, threads, lookup_thread, clicks, alive>>
    /\ UNCHANGED <<parseVars, queryVars, lookupVars>>

HandleError ==
    /\ alive
    /\ signals # <<>> /\ Head(signals).kind = "error"
    /\ button_enabled' = TRUE
    /\ results_label' = "Error occurred"
    /\ ip_list' = <<"Error">>
    /\ query_time_label' = ""
    /\ handled' = [handled EXCEPT ![Head(signals).thread] =
                       Append(@, "handle_error")]
    /\ signals' = Tail(signals)
    /\ UNCHANGED <<domain_input, threads, lookup_thread, clicks, alive>>
    /\ UNCHANGED <<parseVars, queryVars, lookupVars>>

NextGui ==
    \/ EditDomain
    \/ PerformLookup
    \/ \E t \in 1..Len(threads) : ThreadEmit(t)
    \/ \E t \in 1..Len(threads) : ThreadReturn(t)
    \/ HandleResults
    \/ HandleError

----------------------------------------------------------------------------
(* The specifications: one per part of the program, the other parts idle. *)

InitParse == ParseInit /\ QueryIdle /\ LookupIdle /\ GuiIdle
\* the parser runs to its end: nothing else is scheduled
SpecParse == InitParse /\ [][NextParse]_vars /\ WF_vars(NextParse)

InitQuery == ParseIdle /\ QueryInit /\ LookupIdle /\ GuiIdle
NextQuery == CallCreateDnsQuery
SpecQuery == InitQuery /\ [][NextQuery]_vars

InitLookup == ParseIdle /\ QueryIdle /\ LookupIdle /\ GuiIdle
SpecLookup == InitLookup /\ [][NextLookup]_vars

InitGui == ParseIdle /\ QueryIdle /\ LookupIdle /\ GuiIdle
SpecGui == InitGui /\ [][NextGui]_vars

Init == InitParse
Next == NextParse
Spec == SpecParse

----------------------------------------------------------------------------
(* What the claims about parse_dns_response are stated with. *)

RECURSIVE Num(_)
\* the number a string of decimal digits writes
Num(part) ==
    IF part = <<>> THEN 0
    ELSE 10 * Num(SubSeq(part, 1, Len(part) - 1)) + (part[Len(part)] - 48)

\* a decimal octet: one to three digits, no leading zero, at most 255
IsOctetText(part) ==
    /\ Len(part) \in 1..3
    /\ \A k \in 1..Len(part) : part[k] \in 48..57
    /\ Len(part) = 1 \/ part[1] # 48
    /\ Num(part) <= 255

\* exactly four decimal octets separated by dots
IsDottedQuad(str) ==
    LET parts == Split(str)
    IN Len(parts) = 4 /\ \A k \in 1..4 : IsOctetText(parts[k])

\* the numbers a dot-separated string writes; none for the empty string
Octets(str) ==
    IF str = <<>> THEN <<>>
    ELSE LET parts == Split(str) IN [k \in 1..Len(parts) |-> Num(parts[k])]

\* the buffer is the whole message, with ANCOUNT the number of its records
Intact == response = EncResponse(question, records, Len(records))

\* the message is well-formed as the data model has it: whole, every owner
\* name either labels to a zero byte or a 2-byte pointer, every A record
\* with 4 bytes of RDATA
WellFormed ==
    /\ Intact
    /\ \A k \in 1..Len(records) :
         /\ records[k].name \in {"labels", "pointer"}
         /\ records[k].type = TypeA => Len(records[k].rdata) = 4

\* the offset at which answer record k of the message starts
RecordStart(k) ==
    Len(EncResponse(question, SubSeq(records, 1, k - 1), 0))

IsA(r) == r.type = TypeA
\* the RDATA of the message's A records, in order
AddressData ==
    LET as == SelectSeq(records, IsA) IN [k \in 1..Len(as) |-> as[k].rdata]

\* "93.184.216.34"
ExampleAddress == <<57, 51, 46, 49, 56, 52, 46, 50, 49, 54, 46, 51, 52>>

Terminated == pc \in {"done", "error"}

\* C1 (as claimed): no buffer on which a read needs bytes that are not
\* there is parsed successfully; in particular the parser never returns
\* after an answer record whose RDLENGTH runs past the end of the buffer.
C1_ShortBufferFails == (pc = "done" /\ i > 0) => offset <= Len(response)

\* C2: on a well-formed response the parser does not fail, starts every
\* answer record at the record's true offset, and returns exactly the
\* addresses of the type 1 records, in order.
C2_ReturnsTheARecords ==
    WellFormed =>
        /\ pc # "error"
        /\ pc = "ans_name" => offset = RecordStart(i + 1)
        /\ pc = "done" =>
             /\ i = Len(records)
             /\ [k \in 1..Len(ip_addresses) |-> Octets(ip_addresses[k])]
                    = AddressData

C2_Witness ==
    /\ WellFormed /\ pc = "done" /\ Len(records) = 2
    /\ records[1].type = 5 /\ records[2].type = TypeA
    /\ ip_addresses = <<ExampleAddress>>

\* the step over an owner name, or over one label of it
C3_NameStep ==
    (pc \in {"ans_name", "ans_label"} /\ pc' # "error") =>
        LET first == response[offset + 1]
        IN IF pc = "ans_name" /\ IsPointer(first)
           THEN offset' = offset + 2 /\ pc' = "ans_fields"
           ELSE /\ offset' = offset + first + 1
                /\ pc' = (IF first = 0 THEN "ans_fields" ELSE "ans_label")
\* the step over the 10 bytes of fixed fields
C3_FieldsStep ==
    (pc = "ans_fields" /\ pc' # "error") =>
        /\ offset' = offset + 10
        /\ record_type' = response[offset + 1] * 256 + response[offset + 2]
        /\ data_len' = response[offset + 9] * 256 + response[offset + 10]
\* the fields read behind a pointer are those of the record
C3_BehindPointer ==
    (WellFormed /\ pc = "ans_data" /\ records[i + 1].name = "pointer") =>
        /\ offset = RecordStart(i + 1) + 2 + 10
        /\ record_type = records[i + 1].type
        /\ data_len = Len(records[i + 1].rdata)
\* C3: an owner name whose first byte has both top bits set moves the
\* offset by exactly 2, any other is walked one label at a time, by the
\* label's length plus 1, up to a zero byte; the type and RDLENGTH are the
\* 10 bytes right after the name.  In a well-formed response the fields read
\* behind a pointer are the record's own, at every position.
C3_PointerSkipped ==
    [][C3_NameStep /\ C3_FieldsStep]_vars /\ []C3_BehindPointer

C3_Witness ==
    /\ WellFormed /\ pc = "done" /\ Len(records) = 2
    /\ records[2].name = "pointer" /\ records[2].type = TypeA
    /\ records[1].type = TypeA
    /\ ip_addresses[2] = ExampleAddress

\* C6 (as claimed): every string returned is a dotted quad.
C6_AllDottedQuads ==
    pc = "done" => \A k \in 1..Len(ip_addresses) : IsDottedQuad(ip_addresses[k])

\* the step over the RDATA of a record
C6_DataStep ==
    pc = "ans_data" =>
        LET left == IF offset > Len(response) THEN 0 ELSE Len(response) - offset
            n == IF data_len < left THEN data_len ELSE left
        IN IF record_type = 1
           THEN /\ Len(ip_addresses') = Len(ip_addresses) + 1
                /\ SubSeq(ip_addresses', 1, Len(ip_addresses)) = ip_addresses
                /\ LET str == ip_addresses'[Len(ip_addresses')]
                   IN /\ Octets(str) = SubSeq(response, offset + 1, offset + n)
                      /\ IsDottedQuad(str) <=> n = 4
                      /\ str # <<>> =>
                           \A p \in 1..Len(Split(str)) :
                               IsOctetText(Split(str)[p])
           ELSE ip_addresses' = ip_addresses
\* C6 (amended): the string appended for a type 1 record writes, in decimal
\* and separated by dots, the RDATA bytes of that record that lie inside the
\* buffer, min(RDLENGTH, bytes left) of them; it is a dotted quad exactly
\* when these are 4.  Records of other types append nothing.
C6_StringsWriteTheRdata ==
    [][C6_DataStep /\ (pc # "ans_data" => ip_addresses' = ip_addresses)]_vars

C6_Witness ==
    /\ pc = "done" /\ Len(ip_addresses) = 2
    /\ IsDottedQuad(ip_addresses[1]) /\ ~IsDottedQuad(ip_addresses[2])

\* one step of the parser: forward, and failing only at the end of the buffer
C9_Step ==
    /\ offset' >= offset
    /\ pc = "header" /\ pc' # "error" => offset' = 12
    /\ pc \in {"q_label", "ans_name", "ans_label", "ans_fields"}
           /\ pc' # "error" => offset' > offset
    /\ pc = "ans_data" => offset' = offset + data_len /\ pc' # "error"
    /\ pc' = "error" =>
           IF pc = "header" THEN Len(response) < 12
           ELSE IF pc = "ans_fields" THEN offset + 10 > Len(response)
           ELSE offset >= Len(response)
    /\ ~Terminated
\* C9: the offset starts at 12 and never decreases; every step of the
\* question skip and of an answer's name and fixed fields increases it, the
\* RDATA adds RDLENGTH; the parser ends, either returning after exactly
\* ANCOUNT records or failing on a read past the end of the buffer.
C9_ForwardPass ==
    /\ [][C9_Step]_vars
    /\ [](pc = "done" => i = ancount)
    /\ <>Terminated

C9_Witness == pc = "done" /\ i = 2 /\ ancount = 2 /\ offset > Len(response)

----------------------------------------------------------------------------
(* What the claims about create_dns_query are stated with. *)

\* the number of code points from position j up to the next dot or the end
LabelLenFrom(d, j) ==
    LET stop == CHOOSE k \in j..(Len(d) + 1) :
                    /\ k = Len(d) + 1 \/ d[k] = Dot
                    /\ \A m \in j..(k - 1) : d[m] # Dot
    IN stop - j

\* ASCII only, no label longer than 255: the domains the encoder takes
Encodable(d) ==
    /\ \A k \in 1..Len(d) : d[k] < 128
    /\ \A j \in 1..(Len(d) + 1) : LabelLenFrom(d, j) <= 255

\* b, from 0-based offset at, holds d as length-prefixed labels: the length
\* of the first label, then each code point of d in place, a dot replaced
\* by the length of the label after it, then one zero byte
HoldsName(b, at, d) ==
    /\ b[at + 1] = LabelLenFrom(d, 1)
    /\ \A j \in 1..Len(d) :
         b[at + 1 + j] = (IF d[j] = Dot THEN LabelLenFrom(d, j + 1) ELSE d[j])
    /\ b[at + Len(d) + 2] = 0

\* the encoded name inside a query: between the header and QTYPE, QCLASS
NameOf(b) == SubSeq(b, HeaderLen + 1, Len(b) - QFixedLen)

RECURSIVE WalkEnd(_, _)
\* reading name as length-prefixed labels from index k: the index of the
\* first length byte that is 0 (0 when the reading runs off the end)
WalkEnd(name, k) ==
    IF k > Len(name) THEN 0
    ELSE IF name[k] = 0 THEN k
    ELSE WalkEnd(name, k + name[k] + 1)

\* no leading, trailing or doubled dot: every label is non-empty
NoEmptyLabel(d) ==
    /\ d # <<>>
    /\ d[1] # Dot /\ d[Len(d)] # Dot
    /\ \A k \in 1..(Len(d) - 1) : ~(d[k] = Dot /\ d[k + 1] = Dot)

\* C4: for an ASCII domain with labels of at most 255 bytes and a query
\* type in 0..65535 the call returns 2 id bytes, flags 0x0100, counts 1, 0,
\* 0, 0, the length-prefixed labels, a zero byte, the query type and class
\* 1; two calls with the same inputs differ in the id bytes at most; for
\* "a.b.c" the bytes after the header are 01 'a' 01 'b' 01 'c' 00 00 01 00 01.
C4_QueryLayout ==
    \A k \in 1..Len(query) :
        LET b == query[k].bytes
        IN /\ query[k].ok <=>
                  (Encodable(domain_name) /\ query_type \in 0..65535)
           /\ query[k].ok =>
                /\ Len(b) = 12 + (Len(domain_name) + 2) + 4
                /\ b[1] * 256 + b[2] \in 0..65535
                /\ b[1] \in Byte /\ b[2] \in Byte
                /\ SubSeq(b, 3, 12) = <<1, 0, 0, 1, 0, 0, 0, 0, 0, 0>>
                /\ HoldsName(b, 12, domain_name)
                /\ SubSeq(b, Len(b) - 3, Len(b))
                       = <<query_type \div 256, query_type % 256, 0, 1>>
                /\ (domain_name = <<97, 46, 98, 46, 99>> /\ query_type = 1) =>
                       SubSeq(b, 13, Len(b))
                           = <<1, 97, 1, 98, 1, 99, 0, 0, 1, 0, 1>>
                /\ \A m \in 1..Len(query) :
                       SubSeq(query[m].bytes, 3, Len(b)) = SubSeq(b, 3, Len(b))

C4_Witness ==
    /\ domain_name = <<97, 46, 98, 46, 99>> /\ query_type = 1
    /\ Len(query) = 2 /\ query[1].ok /\ query[2].ok
    /\ query[1].bytes # query[2].bytes

\* C5 (as claimed): for every non-empty domain the encoder takes, the only
\* zero length byte of the encoded name is its final byte.
C5_OneTerminator ==
    \A k \in 1..Len(query) :
        (query[k].ok /\ domain_name # <<>>) =>
            WalkEnd(NameOf(query[k].bytes), 1) = Len(NameOf(query[k].bytes))

\* C5 (amended): the only zero length byte is the final byte exactly when
\* every label of the domain is non-empty; a leading, trailing or doubled
\* dot puts a zero length byte before the terminator.
C5_OneTerminatorIfNoEmptyLabel ==
    \A k \in 1..Len(query) :
        (query[k].ok /\ domain_name # <<>>) =>
            LET name == NameOf(query[k].bytes)
            IN /\ name[Len(name)] = 0
               /\ WalkEnd(name, 1) = Len(name) <=> NoEmptyLabel(domain_name)
               /\ WalkEnd(name, 1) # 0

C5_Witness ==
    /\ domain_name = <<97, 97, 46, 97>>
    /\ Len(query) = 1 /\ query[1].ok
    /\ WalkEnd(NameOf(query[1].bytes), 1) = 6

----------------------------------------------------------------------------
(* The claims about dns_lookup. *)

CallEnded == lpc \in {"returned", "raised"}

\* C7: when a call of dns_lookup has ended, by return or by any exception,
\* its socket is closed; no socket is open outside the with block, and a
\* socket of an earlier call is never open.
C7_SocketClosed ==
    /\ (lpc = "idle" \/ CallEnded) => \A k \in 1..Len(socks) : socks[k] = "closed"
    /\ \A k \in 1..(Len(socks) - 1) : socks[k] = "closed"
    /\ lpc \in {"opened", "queried", "sent", "received"} =>
           socks # <<>> /\ socks[Len(socks)] = "open"
    /\ Len(socks) <= calls

C7_Witness ==
    /\ lpc = "raised" /\ outcome.kind = "timeout"
    /\ calls = 2 /\ socks = <<"closed", "closed">>

\* C8: a call sends once and then receives at most once; a timeout or a
\* parse error ends the call with that error and no second send or receive;
\* a call that returns gives what parsing the one datagram received gives.
C8_OneSendOneReceive ==
    /\ sends <= 1 /\ recvs <= sends
    /\ lpc \in {"opened", "queried"} => sends = 0
    /\ lpc = "sent" => sends = 1 /\ recvs = 0
    /\ lpc = "received" => recvs = 1
    /\ lpc = "returned" =>
         /\ sends = 1 /\ recvs = 1 /\ outcome.kind = "ok"
         /\ ParseDnsResponse(datagram).pc = "done"
         /\ outcome.value = ParseDnsResponse(datagram).ip_addresses
    /\ (lpc = "raised" /\ outcome.kind = "timeout") => sends = 1 /\ recvs = 0
    /\ (lpc = "raised" /\ outcome.kind = "ParseError") =>
         /\ sends = 1 /\ recvs = 1
         /\ ParseDnsResponse(datagram).pc = "error"
    /\ (lpc = "raised" /\ recvs = 1) => outcome.kind = "ParseError"
    /\ (lpc = "raised" /\ sends = 1 /\ recvs = 0) =>
           outcome.kind \in {"timeout", "OSError"}

C8_Witness ==
    /\ lpc = "raised" /\ outcome.kind = "ParseError"
    /\ sends = 1 /\ recvs = 1 /\ datagram # <<>>

----------------------------------------------------------------------------
(* The claim about the GUI. *)

\* the threads whose run() has not returned
Running == {t \in 1..Len(threads) : threads[t] # "returned"}

\* C10 (as claimed): the button is disabled while a started lookup has not
\* been handled, each lookup is handled at most once, and at most one
\* thread is running: a thread is never started, nor self.lookup_thread
\* replaced, before run() of the previous thread has returned.
C10_OneLookupAtATime ==
    /\ \A t \in 1..Len(threads) :
         /\ handled[t] = <<>> => ~button_enabled
         /\ Len(handled[t]) <= 1
    /\ Cardinality(Running) <= 1

====
